---- MODULE Spec2Model ----
(***************************************************************************)
(* Model of scripts/screener.py: the TradingView screener run (main), the  *)
(* per-strategy query (run_screener), the row normalisation loop of main,  *)
(* the value sanitiser (clean_for_json) and the PostgreSQL persistence     *)
(* (save_to_database) against the "ScreenerSignal" table.                  *)
(*                                                                         *)
(* Python values are tagged records:                                       *)
(*   [kind |-> "float", cls |-> "finite"|"nan"|"inf"|"-inf", num |-> n]    *)
(*   [kind |-> "int", num |-> n]     [kind |-> "none"]                     *)
(*   [kind |-> "list", items |-> <<...>>]                                  *)
(*   [kind |-> "dict", fields |-> [key |-> value]]                         *)
(* Python strings that the code inspects (the row's 'name', the            *)
(* DATABASE_URL environment value) are sequences of characters.            *)
(* Time is counted in hours.                                               *)
(***************************************************************************)
EXTENDS Integers, Sequences, FiniteSets, TLC

-----------------------------------------------------------------------------
(* Bounds of the model *)

\* the most signals one run aggregates (rows the remote service returns
\* beyond this budget are not enumerated)
MaxSignals == 2

\* how many hours the database clock may advance while one run persists
MaxTicks == 1

\* the hour at which the run starts: 23:00 of the third day
StartTime == 71

-----------------------------------------------------------------------------
(* Program constants *)

\* lower and upper end of the price band of line 207
PriceLow == 25
PriceHigh == 100

\* INTERVAL '1 day' of the DELETE statement, in hours
RetentionHours == 24

\* length of the calendar day over which the table's unique index is taken
DayHours == 24

\* STRATEGY_FILTERS, in insertion order (a dict iterates in insertion order)
STRATEGY_FILTERS ==
    << [key |-> "rsi_stochastic_oversold", name |-> "RSI-Stochastic Double Oversold"],
       [key |-> "adx_trend_pullback",      name |-> "ADX Trend + MA Pullback"],
       [key |-> "bollinger_squeeze",       name |-> "Bollinger Squeeze Breakout"],
       [key |-> "macd_bb_volume",          name |-> "MACD-BB-Volume Triple Filter"],
       [key |-> "stochastic_rsi_sync",     name |-> "Stochastic-RSI Momentum Sync"],
       [key |-> "rsi_mean_reversion",      name |-> "RSI Mean Reversion"],
       [key |-> "macd_momentum",           name |-> "MACD Momentum Crossover"],
       [key |-> "volume_breakout",         name |-> "Volume Breakout Scanner"] >>

NumStrategies == Len(STRATEGY_FILTERS)

StrategyKeys == [i \in 1..NumStrategies |-> STRATEGY_FILTERS[i].key]

-----------------------------------------------------------------------------
(* Python values *)

Float(n)  == [kind |-> "float", cls |-> "finite", num |-> n]
NaN       == [kind |-> "float", cls |-> "nan", num |-> 0]
PosInf    == [kind |-> "float", cls |-> "inf", num |-> 0]
NegInf    == [kind |-> "float", cls |-> "-inf", num |-> 0]
PyInt(n)  == [kind |-> "int", num |-> n]
None      == [kind |-> "none"]
List(s)   == [kind |-> "list", items |-> s]
Dict(f)   == [kind |-> "dict", fields |-> f]

\* math.isnan / math.isinf on a float
isnan(obj) == obj.cls = "nan"
isinf(obj) == obj.cls \in {"inf", "-inf"}

\* truth value of a Python object used in 'not price'
Truthy(v) ==
    CASE v.kind = "none"  -> FALSE
      [] v.kind = "int"   -> v.num # 0
      [] v.kind = "float" -> ~(v.cls = "finite" /\ v.num = 0)
      [] v.kind = "list"  -> v.items # <<>>
      [] v.kind = "dict"  -> DOMAIN v.fields # {}

\* 'v < n' and 'v > n' for a number v and an int literal n (IEEE: every
\* comparison with NaN is false)
LessThan(v, n) ==
    CASE v.kind = "int"   -> v.num < n
      [] v.kind = "float" -> \/ v.cls = "-inf"
                             \/ v.cls = "finite" /\ v.num < n
      [] OTHER            -> FALSE

GreaterThan(v, n) ==
    CASE v.kind = "int"   -> v.num > n
      [] v.kind = "float" -> \/ v.cls = "inf"
                             \/ v.cls = "finite" /\ v.num > n
      [] OTHER            -> FALSE

\* dict.get(key, default)
Get(row, key, default) == IF key \in DOMAIN row THEN row[key] ELSE default

-----------------------------------------------------------------------------
(* clean_for_json: lines 15-25 *)

RECURSIVE clean_for_json_shallow(_)
\* variant that forgets the list branch
clean_for_json_shallow(obj) ==
    IF obj.kind = "dict"
    THEN Dict([k \in DOMAIN obj.fields |-> clean_for_json_shallow(obj.fields[k])])
    ELSE IF obj.kind = "float"
    THEN IF isnan(obj) \/ isinf(obj) THEN None ELSE obj
    ELSE obj

RECURSIVE clean_for_json(_)
clean_for_json(obj) ==
    IF obj.kind = "dict"
    THEN Dict([k \in DOMAIN obj.fields |-> clean_for_json(obj.fields[k])])
    ELSE IF obj.kind = "list"
    THEN List([i \in 1..Len(obj.items) |-> clean_for_json(obj.items[i])])
    ELSE IF obj.kind = "float"
    THEN IF isnan(obj) \/ isinf(obj) THEN None ELSE obj
    ELSE obj

\* json.dumps (allow_nan defaults to True): the JSON value that is stored
RECURSIVE json_dumps(_)
json_dumps(obj) ==
    CASE obj.kind = "dict"  ->
            [kind |-> "object",
             fields |-> [k \in DOMAIN obj.fields |-> json_dumps(obj.fields[k])]]
      [] obj.kind = "list"  ->
            [kind |-> "array",
             items |-> [i \in 1..Len(obj.items) |-> json_dumps(obj.items[i])]]
      [] obj.kind = "none"  -> [kind |-> "null"]
      [] obj.kind = "int"   -> [kind |-> "number", num |-> obj.num]
      [] obj.kind = "float" ->
            IF obj.cls = "finite" THEN [kind |-> "number", num |-> obj.num]
            ELSE IF obj.cls = "nan" THEN [kind |-> "token", text |-> "NaN"]
            ELSE IF obj.cls = "inf" THEN [kind |-> "token", text |-> "Infinity"]
            ELSE [kind |-> "token", text |-> "-Infinity"]

-----------------------------------------------------------------------------
(* Strings *)

\* str.strip(chars)
RECURSIVE LStrip(_, _)
LStrip(s, chars) ==
    IF s # <<>> /\ s[1] \in chars THEN LStrip(Tail(s), chars) ELSE s

RECURSIVE RStrip(_, _)
RStrip(s, chars) ==
    IF s # <<>> /\ s[Len(s)] \in chars
    THEN RStrip(SubSeq(s, 1, Len(s) - 1), chars) ELSE s

Strip(s, chars) == RStrip(LStrip(s, chars), chars)

\* line 27: os.environ.get('DATABASE_URL', '').strip().strip('"').strip("'")
ReadDatabaseUrl(env) ==
    Strip(Strip(Strip(Get(env, "DATABASE_URL", <<>>), {" "}), {"\""}), {"'"})

\* the environments a run is started in
Environments ==
    { [HOME |-> <<"h">>],
      [HOME |-> <<"h">>, DATABASE_URL |-> <<" ", "\"", "'", "'", "\"", " ">>],
      [HOME |-> <<"h">>, DATABASE_URL |-> <<"\"", "u", "\"">>] }

\* line 198: name.split(':')[-1]
RECURSIVE LastSegment(_)
LastSegment(s) ==
    IF s = <<>> THEN <<>>
    ELSE IF s[Len(s)] = ":" THEN <<>>
    ELSE LastSegment(SubSeq(s, 1, Len(s) - 1)) \o <<s[Len(s)]>>

-----------------------------------------------------------------------------
(* Rows of the remote screener service *)

NameQA    == <<"Q", ":", "A">>
NameYA    == <<"Y", ":", "A">>
NameM     == <<"M">>
NameColon == <<"Q", ":">>

\* rows the normalisation loop turns into a signal
RowA == [name |-> NameQA, close |-> Float(25), RSI |-> NaN, volume |-> PyInt(7)]
RowB == [name |-> NameYA, close |-> PyInt(100),
         RSI |-> List(<<Float(30), NegInf, Dict([k |-> PosInf, j |-> Float(1)])>>)]
RowNaN == [name |-> NameM, close |-> NaN, RSI |-> Float(30)]

\* rows the normalisation loop skips
RowsSkipped ==
    { [name |-> NameQA, close |-> Float(0), RSI |-> Float(30)],
      [name |-> NameQA, close |-> Float(24), RSI |-> Float(30)],
      [name |-> NameQA, close |-> Float(101), RSI |-> Float(30)],
      [name |-> NameQA, close |-> PosInf, RSI |-> Float(30)],
      [name |-> NameQA, close |-> NegInf, RSI |-> Float(30)],
      [name |-> NameQA, close |-> None, RSI |-> Float(30)],
      [name |-> NameQA, RSI |-> Float(30)],
      [close |-> Float(50), RSI |-> Float(30)],
      [name |-> <<>>, close |-> Float(50), RSI |-> Float(30)],
      [name |-> NameColon, close |-> Float(50), RSI |-> Float(30)] }

RowUniverse == {RowA, RowB, RowNaN} \cup RowsSkipped

\* the sequences of at most n rows
RowSeqs(n) == UNION { [1..k -> RowUniverse] : k \in 0..n }

-----------------------------------------------------------------------------
(* run_screener: lines 119-136.  resp is the outcome of get_scanner_data:  *)
(* it raised, or it returned the rows resp.rows.                           *)

run_screener(resp) == IF resp.raised THEN <<>> ELSE resp.rows

-----------------------------------------------------------------------------
(* The body of the row loop of main: lines 197-216 *)

\* line 207: not price or price < 25 or price > 100
PriceRejected(price) ==
    \/ ~Truthy(price)
    \/ LessThan(price, PriceLow)
    \/ GreaterThan(price, PriceHigh)

\* the signals (none or one) that one row appends to all_signals
SignalsOfRow(strategy, row) ==
    LET symbol     == LastSegment(Get(row, "name", <<>>))
        indicators == Dict([k \in DOMAIN row \ {"name"} |-> row[k]])
        price      == Get(row, "close", PyInt(0))
    IN  IF symbol = <<>> THEN <<>>
        ELSE IF PriceRejected(price) THEN <<>>
        ELSE << [symbol        |-> symbol,
                 strategy_key  |-> strategy.key,
                 strategy_name |-> strategy.name,
                 price         |-> price,
                 indicators    |-> indicators] >>

RECURSIVE SignalsOfRows(_, _)
SignalsOfRows(strategy, rows) ==
    IF rows = <<>> THEN <<>>
    ELSE SignalsOfRow(strategy, Head(rows)) \o SignalsOfRows(strategy, Tail(rows))

\* line 221: if all_signals:
ShouldSave(signals) == signals # <<>>

\* line 227: the number of signals of one strategy
CountFor(signals, key) ==
    Cardinality({i \in 1..Len(signals) : signals[i].strategy_key = key})

-----------------------------------------------------------------------------
(* The "ScreenerSignal" table *)

Day(t) == t \div DayHours

\* the unique index of the table: one row per symbol, strategy and day
UniqueKey(rec) == <<rec.symbol, rec.strategy_key, Day(rec.scanned_at)>>

\* lines 151-154: DELETE ... WHERE scanned_at < NOW() - INTERVAL '1 day'
DeleteOldInclusive(st, now) ==
    {r \in st : ~(r.scanned_at <= now - RetentionHours)}

DeleteOld(st, now) ==
    {r \in st : ~(r.scanned_at < now - RetentionHours)}

\* the row of lines 166-175 for one signal
RecordOf(signal, now) ==
    [symbol        |-> signal.symbol,
     strategy_key  |-> signal.strategy_key,
     strategy_name |-> signal.strategy_name,
     price         |-> signal.price,
     indicators    |-> json_dumps(clean_for_json(signal.indicators)),
     scanned_at    |-> now,
     processed     |-> FALSE]

\* variant: ON CONFLICT ... DO UPDATE
InsertOnConflictDoUpdate(st, rec) ==
    {r \in st : UniqueKey(r) # UniqueKey(rec)} \cup {rec}

\* lines 165-168: INSERT ... ON CONFLICT DO NOTHING
InsertOnConflictDoNothing(st, rec) ==
    IF \E r \in st : UniqueKey(r) = UniqueKey(rec) THEN st ELSE st \cup {rec}

\* a row written by an earlier run
EarlierRecord(symbol, i, t) ==
    [symbol        |-> symbol,
     strategy_key  |-> STRATEGY_FILTERS[i].key,
     strategy_name |-> STRATEGY_FILTERS[i].name,
     price         |-> Float(50),
     indicators    |-> json_dumps(clean_for_json(Dict([close |-> Float(50)]))),
     scanned_at    |-> t,
     processed     |-> FALSE]

\* the tables a run may find: empty, or holding rows written 25 hours ago,
\* exactly 24 hours ago and earlier in the current hour
InitialStores ==
    { {},
      { EarlierRecord(<<"A">>, 1, StartTime - RetentionHours - 1),
        EarlierRecord(<<"M">>, 1, StartTime - RetentionHours),
        EarlierRecord(<<"A">>, 1, StartTime) } }

-----------------------------------------------------------------------------
(* State *)

VARIABLES
    DATABASE_URL,   \* module constant of line 27
    pc,             \* position of main / save_to_database
    idx,            \* position of the loop of line 192 in STRATEGY_FILTERS
    results,        \* line 195: the rows of the current strategy
    queryFailed,    \* whether run_screener took its except branch (line 134)
    all_signals,    \* line 190
    store,          \* the rows of the "ScreenerSignal" table
    clock,          \* NOW() of the database
    cursor,         \* position of the loop of line 160 in signals
    saved_count,    \* line 159
    out,            \* the lines printed from line 218 on
    queried,        \* history: the strategies get_scanner_data was called for
    anyFailed,      \* history: whether a query of the scan loop in progress has raised
    storeCalls,     \* history: the number of calls of save_to_database
    attempts,       \* history: the number of INSERT statements executed
    created,        \* history: the number of INSERT statements that added a row
    store0,         \* history: the table when the run started
    evictNow        \* history: NOW() of the successful DELETE, -1 if none

vars == <<DATABASE_URL, pc, idx, results, queryFailed, all_signals, store,
          clock, cursor, saved_count, out, queried, anyFailed, storeCalls,
          attempts, created, store0, evictNow>>

scanVars == <<idx, results, queryFailed, all_signals, queried, anyFailed>>
dbVars   == <<store, cursor, saved_count, attempts, created, evictNow>>

Init ==
    /\ \E env \in Environments : DATABASE_URL = ReadDatabaseUrl(env)
    /\ pc = "query"
    /\ idx = 1
    /\ results = <<>>
    /\ queryFailed = FALSE
    /\ all_signals = <<>>
    /\ store \in InitialStores
    /\ store0 = store
    /\ clock = StartTime
    /\ cursor = 0
    /\ saved_count = 0
    /\ out = <<>>
    /\ queried = <<>>
    /\ anyFailed = FALSE
    /\ storeCalls = 0
    /\ attempts = 0
    /\ created = 0
    /\ evictNow = -1

-----------------------------------------------------------------------------
(* main: the scan loop, lines 192-216 *)

\* line 195, get_scanner_data returns rows
QueryReturns ==
    /\ pc = "query"
    /\ \E rows \in RowSeqs(MaxSignals - Len(all_signals)) :
          results' = run_screener([raised |-> FALSE, rows |-> rows])
    /\ queryFailed' = FALSE
    /\ queried' = Append(queried, STRATEGY_FILTERS[idx].key)
    /\ pc' = "normalize"
    /\ UNCHANGED <<DATABASE_URL, idx, all_signals, anyFailed, clock, out,
                   storeCalls, store0, dbVars>>

\* variant: the exception of the query is not caught
QueryFailsUncaught ==
    /\ pc = "query"
    /\ queried' = Append(queried, STRATEGY_FILTERS[idx].key)
    /\ anyFailed' = TRUE
    /\ pc' = "crashed"
    /\ UNCHANGED <<DATABASE_URL, idx, results, queryFailed, all_signals, clock,
                   out, storeCalls, store0, dbVars>>

\* line 195, the query raises: lines 134-136
QueryFails ==
    /\ pc = "query"
    /\ results' = run_screener([raised |-> TRUE, rows |-> <<>>])
    /\ queryFailed' = TRUE
    /\ anyFailed' = TRUE
    /\ queried' = Append(queried, STRATEGY_FILTERS[idx].key)
    /\ pc' = "normalize"
    /\ UNCHANGED <<DATABASE_URL, idx, all_signals, clock, out, storeCalls,
                   store0, dbVars>>

\* lines 197-216 for the rows of one strategy, then the next strategy.
\* results and queryFailed are dead after the loop body and are reset, and
\* so is the history of the loop when the loop ends.
Normalize ==
    /\ pc = "normalize"
    /\ all_signals' = all_signals \o SignalsOfRows(STRATEGY_FILTERS[idx], results)
    /\ results' = <<>>
    /\ queryFailed' = FALSE
    /\ IF idx < NumStrategies
       THEN idx' = idx + 1 /\ anyFailed' = anyFailed /\ pc' = "query"
       ELSE idx' = idx /\ anyFailed' = FALSE /\ pc' = "total"
    /\ UNCHANGED <<DATABASE_URL, clock, out, queried, storeCalls, store0, dbVars>>

\* lines 218-222
Total ==
    /\ pc = "total"
    /\ out' = Append(out, [tag |-> "total", n |-> Len(all_signals)])
    /\ pc' = IF ShouldSave(all_signals) THEN "save" ELSE "summary"
    /\ UNCHANGED <<DATABASE_URL, clock, storeCalls, store0, scanVars, dbVars>>

-----------------------------------------------------------------------------
(* save_to_database: lines 139-183 *)

\* lines 141-143
SaveWithoutUrl ==
    /\ pc = "save"
    /\ DATABASE_URL = <<>>
    /\ storeCalls' = storeCalls + 1
    /\ out' = Append(out, [tag |-> "ERROR: DATABASE_URL not set"])
    /\ pc' = "summary"
    /\ UNCHANGED <<DATABASE_URL, clock, store0, scanVars, dbVars>>

\* lines 145-147, psycopg2.connect succeeds
Connect ==
    /\ pc = "save"
    /\ DATABASE_URL # <<>>
    /\ storeCalls' = storeCalls + 1
    /\ pc' = "evict"
    /\ UNCHANGED <<DATABASE_URL, clock, out, store0, scanVars, dbVars>>

\* line 145, psycopg2.connect raises: nothing catches it, main ends with it
ConnectFails ==
    /\ pc = "save"
    /\ DATABASE_URL # <<>>
    /\ storeCalls' = storeCalls + 1
    /\ pc' = "crashed"
    /\ UNCHANGED <<DATABASE_URL, clock, out, store0, scanVars, dbVars>>

\* lines 150-154, the DELETE succeeds; then line 159
Evict ==
    /\ pc = "evict"
    /\ store' = DeleteOld(store, clock)
    /\ evictNow' = clock
    /\ saved_count' = 0
    /\ cursor' = 1
    /\ pc' = "insert"
    /\ UNCHANGED <<DATABASE_URL, clock, out, storeCalls, store0, attempts,
                   created, scanVars>>

\* lines 155-156, the DELETE raises; then line 159
EvictFails ==
    /\ pc = "evict"
    /\ out' = Append(out, [tag |-> "Error clearing old signals"])
    /\ saved_count' = 0
    /\ cursor' = 1
    /\ pc' = "insert"
    /\ UNCHANGED <<DATABASE_URL, clock, store, storeCalls, store0, attempts,
                   created, evictNow, scanVars>>

\* lines 161-176, the INSERT of signals[cursor] executes (autocommit)
Insert ==
    /\ pc = "insert"
    /\ cursor <= Len(all_signals)
    /\ LET signal == all_signals[cursor]
       IN  /\ store' = InsertOnConflictDoNothing(store, RecordOf(signal, clock))
           /\ created' = IF store' # store THEN created + 1 ELSE created
    /\ attempts' = attempts + 1
    /\ saved_count' = saved_count + 1
    /\ cursor' = cursor + 1
    /\ UNCHANGED <<DATABASE_URL, pc, clock, out, storeCalls, store0, evictNow,
                   scanVars>>

\* variant: the exception of one INSERT ends the loop
InsertFailsAborting ==
    /\ pc = "insert"
    /\ cursor <= Len(all_signals)
    /\ attempts' = attempts + 1
    /\ out' = Append(out, [tag |-> "Error saving",
                           symbol |-> all_signals[cursor].symbol])
    /\ cursor' = Len(all_signals) + 1
    /\ UNCHANGED <<DATABASE_URL, pc, clock, store, saved_count, storeCalls,
                   store0, created, evictNow, scanVars>>

\* lines 177-178, the INSERT of signals[cursor] raises
InsertFails ==
    /\ pc = "insert"
    /\ cursor <= Len(all_signals)
    /\ attempts' = attempts + 1
    /\ out' = Append(out, [tag |-> "Error saving",
                           symbol |-> all_signals[cursor].symbol])
    /\ cursor' = cursor + 1
    /\ UNCHANGED <<DATABASE_URL, pc, clock, store, saved_count, storeCalls,
                   store0, created, evictNow, scanVars>>

\* lines 180-183
Report ==
    /\ pc = "insert"
    /\ cursor > Len(all_signals)
    /\ out' = Append(out, [tag |-> "Saved", n |-> saved_count,
                           of |-> Len(all_signals)])
    /\ pc' = "summary"
    /\ UNCHANGED <<DATABASE_URL, clock, storeCalls, store0, scanVars, dbVars>>

\* lines 224-228
Summary ==
    /\ pc = "summary"
    /\ out' = Append(out, [tag |-> "Summary",
                           counts |-> [i \in 1..NumStrategies |->
                                         CountFor(all_signals, STRATEGY_FILTERS[i].key)]])
    /\ pc' = "done"
    /\ UNCHANGED <<DATABASE_URL, clock, storeCalls, store0, scanVars, dbVars>>

\* an hour passes on the database server between two statements
Tick ==
    /\ pc \in {"evict", "insert"}
    /\ clock < StartTime + MaxTicks
    /\ clock' = clock + 1
    /\ UNCHANGED <<DATABASE_URL, pc, out, storeCalls, store0, scanVars, dbVars>>

Next ==
    \/ QueryReturns
    \/ QueryFails
    \/ Normalize
    \/ Total
    \/ SaveWithoutUrl
    \/ Connect
    \/ ConnectFails
    \/ Evict
    \/ EvictFails
    \/ Insert
    \/ InsertFails
    \/ Report
    \/ Summary
    \/ Tick

Spec == Init /\ [][Next]_vars

-----------------------------------------------------------------------------
(* Vocabulary of the properties *)

PastScan == pc \in {"total", "save", "evict", "insert", "summary", "done"}

LinesTagged(tag) == {i \in DOMAIN out : out[i].tag = tag}

\* a number inside the price band
InBand(v) ==
    /\ v.kind \in {"int", "float"}
    /\ v.kind = "float" => v.cls = "finite"
    /\ PriceLow <= v.num /\ v.num <= PriceHigh

\* a Python value holds a NaN or an infinity at some depth
RECURSIVE HasNonFinite(_)
HasNonFinite(v) ==
    CASE v.kind = "float" -> v.cls # "finite"
      [] v.kind = "list"  -> \E i \in DOMAIN v.items : HasNonFinite(v.items[i])
      [] v.kind = "dict"  -> \E k \in DOMAIN v.fields : HasNonFinite(v.fields[k])
      [] OTHER            -> FALSE

\* a stored JSON value holds a NaN or Infinity token at some depth
RECURSIVE HasToken(_)
HasToken(j) ==
    CASE j.kind = "token"  -> TRUE
      [] j.kind = "array"  -> \E i \in DOMAIN j.items : HasToken(j.items[i])
      [] j.kind = "object" -> \E k \in DOMAIN j.fields : HasToken(j.fields[k])
      [] OTHER             -> FALSE

\* the JSON value j has the shape of the Python value v, null where v holds
\* a NaN or an infinity (or None), and v's own value everywhere else
RECURSIVE SanitizedJson(_, _)
SanitizedJson(v, j) ==
    CASE v.kind = "float" ->
            IF v.cls = "finite" THEN j = [kind |-> "number", num |-> v.num]
            ELSE j = [kind |-> "null"]
      [] v.kind = "int"   -> j = [kind |-> "number", num |-> v.num]
      [] v.kind = "none"  -> j = [kind |-> "null"]
      [] v.kind = "list"  ->
            /\ j.kind = "array"
            /\ Len(j.items) = Len(v.items)
            /\ \A i \in DOMAIN v.items : SanitizedJson(v.items[i], j.items[i])
      [] v.kind = "dict"  ->
            /\ j.kind = "object"
            /\ DOMAIN j.fields = DOMAIN v.fields
            /\ \A k \in DOMAIN v.fields : SanitizedJson(v.fields[k], j.fields[k])

-----------------------------------------------------------------------------
(* C1 *)

\* C1: the count that save_to_database reports equals the number of INSERT
\* statements that created a row; an INSERT skipped by ON CONFLICT DO NOTHING
\* does not add to it.
C1_ReportedCountIsRowsCreated ==
    \A i \in LinesTagged("Saved") : out[i].n = created

-----------------------------------------------------------------------------
(* C2 *)

C2_OnePerKey ==
    \A r1, r2 \in store : UniqueKey(r1) = UniqueKey(r2) => r1 = r2

C2_EarlierRowKept ==
    \A r \in store :
        (\E r2 \in store' : UniqueKey(r2) = UniqueKey(r)) => r \in store'

\* C2: the table never holds two rows for one (symbol, strategy key, day of
\* scanned_at), and a row that is in the table stays as it is (price,
\* indicators, timestamp) for as long as the table holds a row for its key:
\* a later INSERT for the same key leaves the earliest row untouched.
C2_OneRowPerKeyEarliestSurvives ==
    []C2_OnePerKey /\ [][C2_EarlierRowKept]_vars

\* an INSERT of this run met a row of an earlier run of the same day and was
\* skipped
C2_Witness ==
    /\ pc = "done"
    /\ saved_count > created
    /\ \E r \in store \cap store0 : \E i \in DOMAIN all_signals :
          /\ all_signals[i].symbol = r.symbol
          /\ all_signals[i].strategy_key = r.strategy_key
          /\ Day(r.scanned_at) = Day(clock)
          /\ r.price # all_signals[i].price

-----------------------------------------------------------------------------
(* C3 *)

\* C3: once the DELETE of a save_to_database call has succeeded, every row
\* that was in the table with scanned_at more than 24 hours before the NOW()
\* of the DELETE is absent, and every row that was in the table with
\* scanned_at within those 24 hours is still present, also after the batch
\* has been written.
C3_OldEvictedRecentKept ==
    (pc \in {"insert", "summary", "done"} /\ evictNow # -1) =>
        \A r \in store0 :
            /\ r.scanned_at < evictNow - RetentionHours => r \notin store
            /\ r.scanned_at >= evictNow - RetentionHours => r \in store

\* a call evicted the row written 25 hours before, kept the one written
\* exactly 24 hours before, and wrote a new row
C3_Witness ==
    /\ pc = "done"
    /\ evictNow # -1
    /\ created > 0
    /\ \E r \in store0 : r.scanned_at = evictNow - RetentionHours - 1 /\ r \notin store
    /\ \E r \in store0 : r.scanned_at = evictNow - RetentionHours /\ r \in store

-----------------------------------------------------------------------------
(* C4 *)

C4_QueriedInCatalogOrder ==
    /\ Len(queried) <= NumStrategies
    /\ queried = SubSeq(StrategyKeys, 1, Len(queried))
    /\ PastScan => queried = StrategyKeys

C4_ScanStep ==
    /\ pc = "query" =>
          /\ pc' = "normalize"
          /\ Len(queried') = Len(queried) + 1
          /\ all_signals' = all_signals
          /\ queryFailed' => results' = <<>>
    /\ pc = "normalize" =>
          /\ all_signals' =
                all_signals \o SignalsOfRows(STRATEGY_FILTERS[idx], results)
          /\ queried' = queried
          /\ pc' = IF Len(queried) < NumStrategies THEN "query" ELSE "total"
    /\ pc \notin {"query", "normalize"} => all_signals' = all_signals

\* C4: every strategy is queried exactly once, in catalog order; a query
\* that raises leaves zero rows for its strategy and the loop goes on with
\* the next strategy; the signals of every strategy's rows are appended to
\* all_signals and stay there to the end of the run.
C4_FailureIsolatedPerStrategy ==
    []C4_QueriedInCatalogOrder /\ [][C4_ScanStep]_vars

\* a strategy returned rows that became signals after an earlier strategy's
\* query had raised
C4_Witness ==
    /\ pc = "normalize"
    /\ anyFailed
    /\ ~queryFailed
    /\ SignalsOfRows(STRATEGY_FILTERS[idx], results) # <<>>

-----------------------------------------------------------------------------
(* C5 *)

\* C5: with an empty DATABASE_URL the run does not end with an exception,
\* leaves the table as it was, and when it is done it has logged the
\* configuration error and reported the total and the per-strategy counts of
\* all_signals.
C5_NoUrlLoggedAndCounted ==
    DATABASE_URL = <<>> =>
        /\ pc # "crashed"
        /\ store = store0
        /\ pc = "done" =>
              /\ LinesTagged("ERROR: DATABASE_URL not set") # {}
              /\ \E i \in LinesTagged("total") : out[i].n = Len(all_signals)
              /\ \E i \in LinesTagged("Summary") :
                    \A k \in 1..NumStrategies :
                        out[i].counts[k] =
                            CountFor(all_signals, STRATEGY_FILTERS[k].key)

-----------------------------------------------------------------------------
(* C6 *)

\* C6: every signal of all_signals has a non-empty symbol and a price p with
\* 25 <= p <= 100.
C6_SignalsInPriceBand ==
    \A i \in DOMAIN all_signals :
        /\ all_signals[i].symbol # <<>>
        /\ InBand(all_signals[i].price)

-----------------------------------------------------------------------------
(* C7 *)

C7_AllAttempted ==
    LinesTagged("Saved") # {} =>
        /\ attempts = Len(all_signals)
        /\ saved_count = attempts - Cardinality(LinesTagged("Error saving"))

C7_NothingUndone ==
    pc = "insert" => store \subseteq store'

\* C7: an INSERT that raises does not end the batch and undoes nothing: when
\* the batch is reported, an INSERT has been executed for every signal, the
\* raising ones are not counted, and no step of the insert loop removes a row
\* from the table.
C7_InsertFailureIsolated ==
    []C7_AllAttempted /\ [][C7_NothingUndone]_vars

\* a batch in which one INSERT raised and another one created a row
C7_Witness ==
    /\ pc = "done"
    /\ LinesTagged("Error saving") # {}
    /\ created > 0
    /\ LinesTagged("Saved") # {}

-----------------------------------------------------------------------------
(* C8 *)

\* C8: no failure propagates out of the run: main never ends with an
\* exception.
C8_RunNeverCrashes == pc # "crashed"

-----------------------------------------------------------------------------
(* C9 *)

\* C9: when the summary is printed, save_to_database has been called exactly
\* once in this run, also when all_signals is empty.
C9_StoreCalledOncePerRun ==
    pc \in {"summary", "done"} => storeCalls = 1

-----------------------------------------------------------------------------
(* C10 *)

\* C10 as stated: the indicators of every signal in all_signals are free of
\* NaN and infinities, and so are the indicators of every row of the table.
C10_SignalsCarrySanitizedIndicators ==
    /\ \A i \in DOMAIN all_signals : ~HasNonFinite(all_signals[i].indicators)
    /\ \A r \in store : ~HasToken(r.indicators)

C10_SignalKeepsRowFields ==
    pc = "normalize" =>
        \A j \in (Len(all_signals) + 1)..Len(all_signals') :
            \E k \in DOMAIN results :
                /\ DOMAIN all_signals'[j].indicators.fields =
                      DOMAIN results[k] \ {"name"}
                /\ \A f \in DOMAIN results[k] \ {"name"} :
                      all_signals'[j].indicators.fields[f] = results[k][f]

C10_StoredIndicatorsSanitized ==
    pc = "insert" =>
        \A r \in store' \ store :
            /\ cursor \in DOMAIN all_signals
            /\ SanitizedJson(all_signals[cursor].indicators, r.indicators)

\* C10 amended: the indicators of a signal in all_signals are the row's
\* fields other than 'name' with their values as the row has them; the
\* indicators of a row written to the table are those of its signal with
\* every NaN and infinity, at any depth, replaced by null and every other
\* value unchanged.
C10_SanitizedWhenStored ==
    /\ [](\A r \in store : ~HasToken(r.indicators))
    /\ [][C10_SignalKeepsRowFields]_vars
    /\ [][C10_StoredIndicatorsSanitized]_vars

\* the table holds a row written for a signal whose indicators hold an
\* infinity inside a nested list
C10_Witness ==
    \E i \in DOMAIN all_signals : \E r \in store \ store0 :
        /\ all_signals[i].indicators.fields["RSI"].kind = "list"
        /\ HasNonFinite(all_signals[i].indicators)
        /\ r.symbol = all_signals[i].symbol
        /\ r.strategy_key = all_signals[i].strategy_key
        /\ SanitizedJson(all_signals[i].indicators, r.indicators)

====
